---- MODULE Spec2Model ----
(***************************************************************************)
(* SaveSoroswapPairsToSQLite (main.go): a consumer that stores Soroswap    *)
(* pair events in the SQLite table soroswap_pairs.                         *)
(*                                                                         *)
(* State: the rows of soroswap_pairs, the component's storage handle s.db, *)
(* the handles that were opened and are referenced by nothing, and a       *)
(* record of the last call made on the component (the request, the storage *)
(* step that failed, the value returned and the table before the call),    *)
(* which the properties below are stated over.  For calls delivered        *)
(* concurrently (SpecConcurrent): the transaction of each call in progress *)
(* and the holder of the store's write lock.                               *)
(***************************************************************************)
EXTENDS Integers, FiniteSets, Sequences, TLC

VARIABLES table, db, unreferenced, last, calls, txs, wlock

vars == <<table, db, unreferenced, last, calls, txs, wlock>>

(***************************************************************************)
(* Bounds of the model.                                                    *)
(***************************************************************************)
\* Calls (Initialize, Process, Close) the host makes in one behaviour.
MaxCalls == 3
\* SQL NULL in the nullable columns last_sync_at and last_sync_ledger.
NULL == -1

\* Values the events of the model carry.  Instant 0 is the zero time.Time.
Pairs == {"P1", "P2"}
Tokens == {"A", "B"}
Reserves == {"0", "100"}
Times == {0, 1}
Ledgers == {0, 1}

(***************************************************************************)
(* JSON values of a payload.  A JSON string that is RFC 3339 text is kept  *)
(* apart from other strings because time.Time decodes only that kind; n is *)
(* the instant it denotes.                                                 *)
(***************************************************************************)
JStr(s) == [k |-> "string", s |-> s, n |-> 0]
JTime(n) == [k |-> "timestring", s |-> "rfc3339", n |-> n]
JNum(n) == [k |-> "number", s |-> "", n |-> n]
JFloat == [k |-> "float", s |-> "", n |-> 0]
JNull == [k |-> "null", s |-> "", n |-> 0]
Absent == [k |-> "absent", s |-> "", n |-> 0]

Keys == {"type", "pair_address", "token_0", "token_1", "timestamp",
         "contract_id", "new_reserve_0", "new_reserve_1", "ledger_sequence"}

EmptyObj == [key \in Keys |-> Absent]

\* msg.Payload: either some value that is not a []byte, or bytes holding text
\* that is invalid JSON, a JSON null, a JSON array or a JSON object.
Payload(bytes, top, obj) == [bytes |-> bytes, top |-> top, obj |-> obj]

\* A zero instant is sent by leaving the timestamp out.
EncTime(n) == IF n = 0 THEN Absent ELSE JTime(n)

NewPairObj(a, t0, t1, ts) ==
    [EmptyObj EXCEPT !["type"] = JStr("new_pair"),
                     !["pair_address"] = JStr(a),
                     !["token_0"] = JStr(t0),
                     !["token_1"] = JStr(t1),
                     !["timestamp"] = EncTime(ts)]

SyncObj(c, r0, r1, ts, l) ==
    [EmptyObj EXCEPT !["type"] = JStr("sync"),
                     !["contract_id"] = JStr(c),
                     !["new_reserve_0"] = JStr(r0),
                     !["new_reserve_1"] = JStr(r1),
                     !["timestamp"] = EncTime(ts),
                     !["ledger_sequence"] = JNum(l)]

NewPairMsg(a, t0, t1, ts) == Payload(TRUE, "object", NewPairObj(a, t0, t1, ts))
SyncMsg(c, r0, r1, ts, l) == Payload(TRUE, "object", SyncObj(c, r0, r1, ts, l))

\* new_pair events with every required field present.
ValidNewPairMsgs ==
    {NewPairMsg(a, t0, t1, ts) : a \in Pairs, t0 \in Tokens, t1 \in Tokens, ts \in Times}

\* Objects that carry nothing but their type.
BareNewPairMsg == Payload(TRUE, "object", [EmptyObj EXCEPT !["type"] = JStr("new_pair")])
BareSyncMsg == Payload(TRUE, "object", [EmptyObj EXCEPT !["type"] = JStr("sync")])

\* new_pair events with an empty pair_address, token_0 or token_1.
InvalidNewPairMsgs ==
    {NewPairMsg("", "A", "B", 1), NewPairMsg("P1", "", "B", 1), NewPairMsg("P1", "A", "", 1),
     NewPairMsg("P2", "", "", 0), NewPairMsg("", "", "", 0), BareNewPairMsg}

NewPairMsgs == ValidNewPairMsgs \cup InvalidNewPairMsgs

\* sync events; the last two name no pair at all.
SyncMsgs ==
    UNION {{SyncMsg(c, r0, r1, ts, l) : c \in Pairs, r0 \in Reserves, r1 \in Reserves}
           : ts \in Times, l \in Ledgers}
    \cup {SyncMsg("", "100", "0", 1, 1), BareSyncMsg}

\* Payloads that are not raw bytes.
NotBytesMsgs == {Payload(FALSE, "object", NewPairObj("P1", "A", "B", 1))}

\* Bytes that are not a JSON document, or whose document is an array.
NotJSONMsgs == {Payload(TRUE, "invalid", EmptyObj), Payload(TRUE, "array", EmptyObj)}

\* Objects whose type is a number: the first decode fails.
BadTypeFieldMsgs ==
    {Payload(TRUE, "object", [NewPairObj("P1", "A", "B", 1) EXCEPT !["type"] = JNum(1)])}

\* Documents whose type is missing or names no event of this consumer.
UnknownTypeMsgs ==
    {Payload(TRUE, "null", EmptyObj),
     Payload(TRUE, "object", [NewPairObj("P1", "A", "B", 1) EXCEPT !["type"] = Absent]),
     Payload(TRUE, "object", [NewPairObj("P1", "A", "B", 1) EXCEPT !["type"] = JNull]),
     Payload(TRUE, "object", [SyncObj("P1", "100", "100", 1, 1) EXCEPT !["type"] = JStr("swap")]),
     Payload(TRUE, "object", [NewPairObj("P2", "A", "B", 1) EXCEPT !["type"] = JStr("")])}

\* Objects of a known type with a field the typed decode refuses.
BadFieldMsgs ==
    {Payload(TRUE, "object", [NewPairObj("P1", "A", "B", 1) EXCEPT !["timestamp"] = JStr("yesterday")]),
     Payload(TRUE, "object", [NewPairObj("P2", "A", "B", 1) EXCEPT !["pair_address"] = JNum(1)]),
     Payload(TRUE, "object", [NewPairObj("P1", "A", "B", 1) EXCEPT !["token_1"] = JFloat]),
     Payload(TRUE, "object", [SyncObj("P1", "100", "100", 1, 1) EXCEPT !["ledger_sequence"] = JStr("1")]),
     Payload(TRUE, "object", [SyncObj("P1", "100", "100", 1, 1) EXCEPT !["ledger_sequence"] = JFloat]),
     Payload(TRUE, "object", [SyncObj("P1", "100", "100", 1, 1) EXCEPT !["timestamp"] = JNum(1)]),
     Payload(TRUE, "object", [SyncObj("P2", "100", "100", 1, 1) EXCEPT !["new_reserve_0"] = JNum(100)])}

Messages ==
    NewPairMsgs \cup SyncMsgs \cup NotBytesMsgs \cup NotJSONMsgs
    \cup BadTypeFieldMsgs \cup UnknownTypeMsgs \cup BadFieldMsgs

NoMsg == Payload(FALSE, "none", EmptyObj)


(***************************************************************************)
(* encoding/json, as json.Unmarshal uses it on the structs of main.go: a   *)
(* missing key or a JSON null leaves the field at its zero value, a value  *)
(* of the wrong JSON kind is an error.                                     *)
(***************************************************************************)
DecString(v) ==
    CASE v.k \in {"string", "timestring"} -> [ok |-> TRUE, val |-> v.s]
      [] v.k \in {"null", "absent"} -> [ok |-> TRUE, val |-> ""]
      [] OTHER -> [ok |-> FALSE, val |-> ""]

\* Variant: text that is not RFC 3339 is taken as the zero instant.
DecTime_Lenient(v) ==
    CASE v.k = "timestring" -> [ok |-> TRUE, val |-> v.n]
      [] v.k \in {"null", "absent", "string"} -> [ok |-> TRUE, val |-> 0]
      [] OTHER -> [ok |-> FALSE, val |-> 0]

DecTime(v) ==
    CASE v.k = "timestring" -> [ok |-> TRUE, val |-> v.n]
      [] v.k \in {"null", "absent"} -> [ok |-> TRUE, val |-> 0]
      [] OTHER -> [ok |-> FALSE, val |-> 0]

DecInt64(v) ==
    CASE v.k = "number" -> [ok |-> TRUE, val |-> v.n]
      [] v.k \in {"null", "absent"} -> [ok |-> TRUE, val |-> 0]
      [] OTHER -> [ok |-> FALSE, val |-> 0]

\* The document as json.Unmarshal sees it before any field is looked at:
\* "object" and "null" decode into a struct, anything else is an error.
TopLevelOK(p) == p.top \in {"object", "null"}

FieldOf(p, key) == IF p.top = "object" THEN p.obj[key] ELSE Absent

\* var temp struct{ Type string }; json.Unmarshal(jsonBytes, &temp)
DecodeType(p) ==
    LET t == DecString(FieldOf(p, "type"))
    IN  [ok |-> TopLevelOK(p) /\ t.ok, Type |-> t.val]

\* Variant: token_0 and token_1 are read into each other's field.
DecodeNewPair_TokensSwapped(p) ==
    LET ty == DecString(FieldOf(p, "type"))
        a  == DecString(FieldOf(p, "pair_address"))
        t0 == DecString(FieldOf(p, "token_0"))
        t1 == DecString(FieldOf(p, "token_1"))
        ts == DecTime(FieldOf(p, "timestamp"))
    IN  [ok |-> TopLevelOK(p) /\ ty.ok /\ a.ok /\ t0.ok /\ t1.ok /\ ts.ok,
         event |-> [Type |-> ty.val, PairAddress |-> a.val, Token0 |-> t1.val,
                    Token1 |-> t0.val, Timestamp |-> ts.val]]

\* json.Unmarshal(jsonBytes, &newPairEvent)
DecodeNewPair(p) ==
    LET ty == DecString(FieldOf(p, "type"))
        a  == DecString(FieldOf(p, "pair_address"))
        t0 == DecString(FieldOf(p, "token_0"))
        t1 == DecString(FieldOf(p, "token_1"))
        ts == DecTime(FieldOf(p, "timestamp"))
    IN  [ok |-> TopLevelOK(p) /\ ty.ok /\ a.ok /\ t0.ok /\ t1.ok /\ ts.ok,
         event |-> [Type |-> ty.val, PairAddress |-> a.val, Token0 |-> t0.val,
                    Token1 |-> t1.val, Timestamp |-> ts.val]]

\* json.Unmarshal(jsonBytes, &syncEvent)
DecodeSync(p) ==
    LET ty == DecString(FieldOf(p, "type"))
        c  == DecString(FieldOf(p, "contract_id"))
        r0 == DecString(FieldOf(p, "new_reserve_0"))
        r1 == DecString(FieldOf(p, "new_reserve_1"))
        ts == DecTime(FieldOf(p, "timestamp"))
        l  == DecInt64(FieldOf(p, "ledger_sequence"))
    IN  [ok |-> TopLevelOK(p) /\ ty.ok /\ c.ok /\ r0.ok /\ r1.ok /\ ts.ok /\ l.ok,
         event |-> [Type |-> ty.val, ContractID |-> c.val, NewReserve0 |-> r0.val,
                    NewReserve1 |-> r1.val, Timestamp |-> ts.val,
                    LedgerSequence |-> l.val]]

(***************************************************************************)
(* The table soroswap_pairs and the two statements run against it.         *)
(***************************************************************************)
Row(a, t0, t1, r0, r1, created, syncAt, syncLedger) ==
    [pair_address |-> a, token_0 |-> t0, token_1 |-> t1,
     reserve_0 |-> r0, reserve_1 |-> r1, created_at |-> created,
     last_sync_at |-> syncAt, last_sync_ledger |-> syncLedger]

\* CHECK (length(pair_address) > 0), CHECK (length(token_0) > 0),
\* CHECK (length(token_1) > 0)
SchemaCheck(r) == r.pair_address # "" /\ r.token_0 # "" /\ r.token_1 # ""

HasPair(tbl, a) == \E r \in tbl : r.pair_address = a

\* Variant: INSERT OR REPLACE, the new row takes the place of the stored one.
ExecInsert_Replace(tbl, event) ==
    LET r == Row(event.PairAddress, event.Token0, event.Token1, "0", "0",
                 event.Timestamp, NULL, NULL)
    IN  IF ~SchemaCheck(r) THEN [ok |-> FALSE, table |-> tbl, affected |-> 0]
        ELSE [ok |-> TRUE,
              table |-> {x \in tbl : x.pair_address # event.PairAddress} \cup {r},
              affected |-> 1]

\* Variant: a plain INSERT into a table without the primary key.
ExecInsert_NoPrimaryKey(tbl, event) ==
    LET r == Row(event.PairAddress, event.Token0, event.Token1, "0", "0",
                 event.Timestamp, NULL, NULL)
    IN  IF ~SchemaCheck(r) THEN [ok |-> FALSE, table |-> tbl, affected |-> 0]
        ELSE [ok |-> TRUE, table |-> tbl \cup {r}, affected |-> 1]

\* INSERT INTO soroswap_pairs (pair_address, token_0, token_1, created_at,
\* reserve_0, reserve_1) VALUES (?, ?, ?, ?, '0', '0')
\* ON CONFLICT (pair_address) DO NOTHING
ExecInsert(tbl, event) ==
    LET r == Row(event.PairAddress, event.Token0, event.Token1, "0", "0",
                 event.Timestamp, NULL, NULL)
    IN  IF ~SchemaCheck(r) THEN [ok |-> FALSE, table |-> tbl, affected |-> 0]
        ELSE IF HasPair(tbl, event.PairAddress)
             THEN [ok |-> TRUE, table |-> tbl, affected |-> 0]
             ELSE [ok |-> TRUE, table |-> tbl \cup {r}, affected |-> 1]

\* Variant: the UPDATE without its WHERE clause.
ExecUpdate_NoWhere(tbl, event) ==
    LET upd(r) == [r EXCEPT !.reserve_0 = event.NewReserve0,
                            !.reserve_1 = event.NewReserve1,
                            !.last_sync_at = event.Timestamp,
                            !.last_sync_ledger = event.LedgerSequence]
    IN  [ok |-> TRUE, table |-> {upd(r) : r \in tbl}, affected |-> Cardinality(tbl)]

\* Variant: the table is rewritten from the updated rows alone.
ExecUpdate_KeepsOnlyUpdated(tbl, event) ==
    LET hit == {r \in tbl : r.pair_address = event.ContractID}
        upd(r) == [r EXCEPT !.reserve_0 = event.NewReserve0,
                            !.reserve_1 = event.NewReserve1,
                            !.last_sync_at = event.Timestamp,
                            !.last_sync_ledger = event.LedgerSequence]
    IN  [ok |-> TRUE, table |-> {upd(r) : r \in hit}, affected |-> Cardinality(hit)]

\* Variant: the UPDATE also sets created_at to the event's timestamp.
ExecUpdate_TouchesCreatedAt(tbl, event) ==
    LET hit == {r \in tbl : r.pair_address = event.ContractID}
        upd(r) == [r EXCEPT !.reserve_0 = event.NewReserve0,
                            !.reserve_1 = event.NewReserve1,
                            !.created_at = event.Timestamp,
                            !.last_sync_at = event.Timestamp,
                            !.last_sync_ledger = event.LedgerSequence]
    IN  [ok |-> TRUE, table |-> (tbl \ hit) \cup {upd(r) : r \in hit},
         affected |-> Cardinality(hit)]

\* Variant: the UPDATE applies only to a row whose stored ledger is lower.
ExecUpdate_OnlyNewer(tbl, event) ==
    LET hit == {r \in tbl : /\ r.pair_address = event.ContractID
                            /\ r.last_sync_ledger < event.LedgerSequence}
        upd(r) == [r EXCEPT !.reserve_0 = event.NewReserve0,
                            !.reserve_1 = event.NewReserve1,
                            !.last_sync_at = event.Timestamp,
                            !.last_sync_ledger = event.LedgerSequence]
    IN  [ok |-> TRUE, table |-> (tbl \ hit) \cup {upd(r) : r \in hit},
         affected |-> Cardinality(hit)]

\* Variant: the UPDATE leaves last_sync_ledger out of its SET list.
ExecUpdate_SkipsLedger(tbl, event) ==
    LET hit == {r \in tbl : r.pair_address = event.ContractID}
        upd(r) == [r EXCEPT !.reserve_0 = event.NewReserve0,
                            !.reserve_1 = event.NewReserve1,
                            !.last_sync_at = event.Timestamp]
    IN  [ok |-> TRUE, table |-> (tbl \ hit) \cup {upd(r) : r \in hit},
         affected |-> Cardinality(hit)]

\* UPDATE soroswap_pairs SET reserve_0 = ?, reserve_1 = ?, last_sync_at = ?,
\* last_sync_ledger = ? WHERE pair_address = ?
ExecUpdate(tbl, event) ==
    LET hit == {r \in tbl : r.pair_address = event.ContractID}
        upd(r) == [r EXCEPT !.reserve_0 = event.NewReserve0,
                            !.reserve_1 = event.NewReserve1,
                            !.last_sync_at = event.Timestamp,
                            !.last_sync_ledger = event.LedgerSequence]
    IN  [ok |-> TRUE, table |-> (tbl \ hit) \cup {upd(r) : r \in hit},
         affected |-> Cardinality(hit)]

\* SELECT EXISTS (SELECT 1 FROM soroswap_pairs WHERE pair_address = ?)
QueryExists(tbl, event) == HasPair(tbl, event.ContractID)

\* tx.Commit() makes the transaction's writes the table; tx.Rollback(), run
\* by the deferred call on every return that did not commit, discards them.
Commit(base, work) == work
\* Variant: the writes made before the failure stay.
Rollback_KeepsWrites(base, work) == work
Rollback(base, work) == base

(***************************************************************************)
(* Storage steps that can fail in a call, as chosen by the environment.    *)
(* "deadline" is the 30 s operation deadline expiring while the            *)
(* transaction is open: the next storage step returns the context's error. *)
(***************************************************************************)
Faults == {"none", "begin", "query", "prepare", "exec", "rows", "commit", "deadline"}

\* What a call did: the value returned, the handler reached, the storage step
\* that failed, what became of its transaction ("none" when none was begun),
\* the number of BeginTx calls that returned (one when a transaction was
\* begun or BeginTx failed) and the table it leaves.
Outcome(result, handler, failed, tx, tbl) ==
    [result |-> result, handler |-> handler, failed |-> failed, tx |-> tx,
     begun |-> IF tx # "none" \/ (handler # "none" /\ failed = "begin") THEN 1 ELSE 0,
     table |-> tbl]


(***************************************************************************)
(* The handlers.  d is s.db, tbl the committed table, fault the storage    *)
(* step the environment makes fail in this call.  Each returns the value   *)
(* Process returns, the step that failed and the table after the call.     *)
(***************************************************************************)
\* Variant: no validation of the event before the transaction.
handleNewPair_NoValidation(d, tbl, event, fault) ==
    IF d = "nil"
    THEN Outcome("panic", "handleNewPair", "none", "none", tbl)
    ELSE IF d = "closed" \/ fault = "begin"
    THEN Outcome("err_storage", "handleNewPair", "begin", "none", tbl)
    ELSE IF fault \in {"deadline", "prepare"}
    THEN Outcome("err_storage", "handleNewPair", fault, "rolledback", Rollback(tbl, tbl))
    ELSE LET ins == ExecInsert(tbl, event)
         IN  IF fault = "exec" \/ ~ins.ok
             THEN Outcome("err_storage", "handleNewPair", "exec", "rolledback", Rollback(tbl, tbl))
             ELSE IF fault \in {"rows", "commit"}
             THEN Outcome("err_storage", "handleNewPair", fault, "rolledback", Rollback(tbl, ins.table))
             ELSE Outcome("ok", "handleNewPair", "none", "committed", Commit(tbl, ins.table))

handleNewPair(d, tbl, event, fault) ==
    IF event.PairAddress = "" \/ event.Token0 = "" \/ event.Token1 = ""
    THEN Outcome("err_validation", "handleNewPair", "none", "none", tbl)
    ELSE IF d = "nil"
    \* s.db.BeginTx on a nil *sql.DB
    THEN Outcome("panic", "handleNewPair", "none", "none", tbl)
    ELSE IF d = "closed" \/ fault = "begin"
    THEN Outcome("err_storage", "handleNewPair", "begin", "none", tbl)
    ELSE IF fault \in {"deadline", "prepare"}
    THEN Outcome("err_storage", "handleNewPair", fault, "rolledback", Rollback(tbl, tbl))
    ELSE LET ins == ExecInsert(tbl, event)
         IN  IF fault = "exec" \/ ~ins.ok
             THEN Outcome("err_storage", "handleNewPair", "exec", "rolledback", Rollback(tbl, tbl))
             ELSE IF fault \in {"rows", "commit"}
             THEN Outcome("err_storage", "handleNewPair", fault, "rolledback", Rollback(tbl, ins.table))
             ELSE Outcome("ok", "handleNewPair", "none", "committed", Commit(tbl, ins.table))

\* Variant: the return for an unknown pair leaves the transaction open (no
\* deferred rollback).
handleSync_LeavesTxOpen(d, tbl, event, fault) ==
    IF d = "nil"
    THEN Outcome("panic", "handleSync", "none", "none", tbl)
    ELSE IF d = "closed" \/ fault = "begin"
    THEN Outcome("err_storage", "handleSync", "begin", "none", tbl)
    ELSE IF fault \in {"deadline", "query"}
    THEN Outcome("err_storage", "handleSync", fault, "rolledback", Rollback(tbl, tbl))
    ELSE IF ~QueryExists(tbl, event)
    THEN Outcome("ok", "handleSync", "none", "open", tbl)
    ELSE IF fault = "prepare"
    THEN Outcome("err_storage", "handleSync", "prepare", "rolledback", Rollback(tbl, tbl))
    ELSE LET upd == ExecUpdate(tbl, event)
         IN  IF fault = "exec" \/ ~upd.ok
             THEN Outcome("err_storage", "handleSync", "exec", "rolledback", Rollback(tbl, tbl))
             ELSE IF fault \in {"rows", "commit"}
             THEN Outcome("err_storage", "handleSync", fault, "rolledback", Rollback(tbl, upd.table))
             ELSE Outcome("ok", "handleSync", "none", "committed", Commit(tbl, upd.table))

\* Variant: a sync event with an empty contract_id is refused like an
\* invalid new_pair event.
handleSync_RejectsEmptyContract(d, tbl, event, fault) ==
    IF event.ContractID = ""
    THEN Outcome("err_validation", "handleSync", "none", "none", tbl)
    ELSE IF d = "nil"
    THEN Outcome("panic", "handleSync", "none", "none", tbl)
    ELSE IF d = "closed" \/ fault = "begin"
    THEN Outcome("err_storage", "handleSync", "begin", "none", tbl)
    ELSE IF fault \in {"deadline", "query"}
    THEN Outcome("err_storage", "handleSync", fault, "rolledback", Rollback(tbl, tbl))
    ELSE IF ~QueryExists(tbl, event)
    THEN Outcome("ok", "handleSync", "none", "rolledback", Rollback(tbl, tbl))
    ELSE IF fault = "prepare"
    THEN Outcome("err_storage", "handleSync", "prepare", "rolledback", Rollback(tbl, tbl))
    ELSE LET upd == ExecUpdate(tbl, event)
         IN  IF fault = "exec" \/ ~upd.ok
             THEN Outcome("err_storage", "handleSync", "exec", "rolledback", Rollback(tbl, tbl))
             ELSE IF fault \in {"rows", "commit"}
             THEN Outcome("err_storage", "handleSync", fault, "rolledback", Rollback(tbl, upd.table))
             ELSE Outcome("ok", "handleSync", "none", "committed", Commit(tbl, upd.table))

\* Variant: a sync for an unknown pair is reported as an error.
handleSync_UnknownPairFails(d, tbl, event, fault) ==
    IF d = "nil"
    THEN Outcome("panic", "handleSync", "none", "none", tbl)
    ELSE IF d = "closed" \/ fault = "begin"
    THEN Outcome("err_storage", "handleSync", "begin", "none", tbl)
    ELSE IF fault \in {"deadline", "query"}
    THEN Outcome("err_storage", "handleSync", fault, "rolledback", Rollback(tbl, tbl))
    ELSE IF ~QueryExists(tbl, event)
    THEN Outcome("err_unknown_pair", "handleSync", "none", "rolledback", Rollback(tbl, tbl))
    ELSE IF fault = "prepare"
    THEN Outcome("err_storage", "handleSync", "prepare", "rolledback", Rollback(tbl, tbl))
    ELSE LET upd == ExecUpdate(tbl, event)
         IN  IF fault = "exec" \/ ~upd.ok
             THEN Outcome("err_storage", "handleSync", "exec", "rolledback", Rollback(tbl, tbl))
             ELSE IF fault \in {"rows", "commit"}
             THEN Outcome("err_storage", "handleSync", fault, "rolledback", Rollback(tbl, upd.table))
             ELSE Outcome("ok", "handleSync", "none", "committed", Commit(tbl, upd.table))

handleSync(d, tbl, event, fault) ==
    IF d = "nil"
    \* s.db.BeginTx on a nil *sql.DB
    THEN Outcome("panic", "handleSync", "none", "none", tbl)
    ELSE IF d = "closed" \/ fault = "begin"
    THEN Outcome("err_storage", "handleSync", "begin", "none", tbl)
    ELSE IF fault \in {"deadline", "query"}
    THEN Outcome("err_storage", "handleSync", fault, "rolledback", Rollback(tbl, tbl))
    ELSE IF ~QueryExists(tbl, event)
    THEN Outcome("ok", "handleSync", "none", "rolledback", Rollback(tbl, tbl))
    ELSE IF fault = "prepare"
    THEN Outcome("err_storage", "handleSync", "prepare", "rolledback", Rollback(tbl, tbl))
    ELSE LET upd == ExecUpdate(tbl, event)
         IN  IF fault = "exec" \/ ~upd.ok
             THEN Outcome("err_storage", "handleSync", "exec", "rolledback", Rollback(tbl, tbl))
             ELSE IF fault \in {"rows", "commit"}
             THEN Outcome("err_storage", "handleSync", fault, "rolledback", Rollback(tbl, upd.table))
             ELSE Outcome("ok", "handleSync", "none", "committed", Commit(tbl, upd.table))

\* Process, from the type assertion on the payload to the handler's return.
ProcessOutcome(d, tbl, msg, fault) ==
    IF ~msg.bytes
    THEN Outcome("err_not_bytes", "none", "none", "none", tbl)
    ELSE LET temp == DecodeType(msg)
         IN  IF ~temp.ok
             THEN Outcome("err_decode_type", "none", "none", "none", tbl)
             ELSE CASE temp.Type = "new_pair" ->
                         LET dec == DecodeNewPair(msg)
                         IN  IF ~dec.ok
                             THEN Outcome("err_decode_event", "none", "none", "none", tbl)
                             ELSE handleNewPair(d, tbl, dec.event, fault)
                    [] temp.Type = "sync" ->
                         LET dec == DecodeSync(msg)
                         IN  IF ~dec.ok
                             THEN Outcome("err_decode_event", "none", "none", "none", tbl)
                             ELSE handleSync(d, tbl, dec.event, fault)
                    [] OTHER -> Outcome("err_unknown_type", "none", "none", "none", tbl)

\* The calls the environment makes: every message with no storage failure, and
\* each storage failure on a few events that reach a handler.
FaultProbes ==
    {NewPairMsg(a, "A", "B", 1) : a \in Pairs}
    \cup {SyncMsg(c, "100", "0", 1, 1) : c \in Pairs}

Requests ==
    (Messages \X {"none"}) \cup (FaultProbes \X (Faults \ {"none"}))

\* The store is a file that outlives the process: what New() finds in it is
\* what earlier runs of this consumer wrote, here the rows left by processing
\* one of these message sequences on an open store with no failure.
RECURSIVE Replay(_, _)
Replay(tbl, msgs) ==
    IF msgs = <<>> THEN tbl
    ELSE Replay(ProcessOutcome("open", tbl, Head(msgs), "none").table, Tail(msgs))

Histories ==
    {<<>>,
     <<NewPairMsg("P1", "A", "B", 1)>>,
     <<NewPairMsg("P1", "A", "B", 1), SyncMsg("P1", "100", "0", 1, 1)>>,
     <<NewPairMsg("P1", "A", "B", 1), NewPairMsg("P2", "B", "A", 0),
       SyncMsg("P2", "0", "100", 0, 0)>>}

InitialTables == {Replay({}, h) : h \in Histories}

\* The record of a call: what was asked, what it did, the table and the
\* handle before it, and the steps of Initialize it ran.
Call(op, msg, out, pre, predb, steps) ==
    [op |-> op, msg |-> msg, fault |-> out.failed, result |-> out.result,
     handler |-> out.handler, tx |-> out.tx, begun |-> out.begun, pre |-> pre,
     predb |-> predb, steps |-> steps]

\* The goroutines that call Process at the same time.
Procs == {"p1", "p2"}

\* A goroutine that is not in a Process call.
IdleTx ==
    [pc |-> "idle", msg |-> NoMsg, handler |-> "none", hasSnap |-> FALSE,
     snap |-> {}, work |-> {}, result |-> "none"]

\* A panic in Process ends the process.
Crashed == last.result = "panic"

(***************************************************************************)
(* Actions: the calls the host makes on the component.                     *)
(***************************************************************************)
\* How an Initialize call goes: "ok", or the step that fails.
InitOutcomes == {"ok", "open", "ping", "pragma", "schema"}

\* The steps of Initialize in order; "assign" is s.db = db.
InitSteps == <<"open", "ping", "pragma", "schema", "assign">>

StepIndex(step) == CHOOSE i \in 1..Len(InitSteps) : InitSteps[i] = step

\* Variant: the error of db.Ping() is ignored.
InitializeOutcome_IgnoresPing(d, outcome) ==
    LET good == outcome \in {"ok", "ping"}
        ran == IF good THEN InitSteps ELSE SubSeq(InitSteps, 1, StepIndex(outcome))
    IN  [result |-> IF good THEN "ok" ELSE "err_init",
         failed |-> IF good THEN "none" ELSE outcome,
         steps |-> ran,
         db |-> IF good THEN "open" ELSE d,
         dropped |-> IF good THEN (IF d = "open" THEN 1 ELSE 0)
                     ELSE IF outcome = "open" THEN 0 ELSE 1]

\* Initialize, as a function of s.db before the call and of how the call
\* goes: each step runs only if the ones before it succeeded, and s.db is
\* assigned last.  dropped counts the open handles the call leaves with no
\* reference: the local db of a call that failed after sql.Open, or the
\* handle s.db held when a later Initialize overwrites it.
InitializeOutcome(d, outcome) ==
    LET good == outcome = "ok"
        ran == IF good THEN InitSteps ELSE SubSeq(InitSteps, 1, StepIndex(outcome))
    IN  [result |-> IF good THEN "ok" ELSE "err_init",
         failed |-> IF good THEN "none" ELSE outcome,
         steps |-> ran,
         db |-> IF good THEN "open" ELSE d,
         dropped |-> IF good THEN (IF d = "open" THEN 1 ELSE 0)
                     ELSE IF outcome = "open" THEN 0 ELSE 1]

\* Initialize: the rows already stored stay (CREATE TABLE IF NOT EXISTS).
Initialize(outcome) ==
    /\ ~Crashed
    /\ calls < MaxCalls
    /\ LET out == InitializeOutcome(db, outcome)
       IN  /\ db' = out.db
           /\ unreferenced' = unreferenced + out.dropped
           /\ last' = Call("Initialize", NoMsg,
                           Outcome(out.result, "none",
                                   IF outcome = "ok" THEN "none" ELSE outcome,
                                   "none", table),
                           table, db, out.steps)
    /\ calls' = calls + 1
    /\ UNCHANGED <<table, txs, wlock>>

Process(msg, fault) ==
    /\ ~Crashed
    /\ calls < MaxCalls
    /\ LET out == ProcessOutcome(db, table, msg, fault)
       IN  /\ table' = out.table
           /\ last' = Call("Process", msg, out, table, db, <<>>)
    /\ calls' = calls + 1
    /\ UNCHANGED <<db, unreferenced, txs, wlock>>

\* What can go wrong in Close: the driver failing to close a connection.
CloseFaults == {"none", "close"}

\* Variant: s.db.Close() with no check for a nil s.db.
CloseOutcome_NoNilCheck(d, fault) ==
    IF d = "nil" THEN [result |-> "panic", failed |-> "none", db |-> "nil"]
    ELSE IF d = "closed" THEN [result |-> "ok", failed |-> "none", db |-> "closed"]
    ELSE IF fault = "close" THEN [result |-> "err_close", failed |-> "close", db |-> "closed"]
    ELSE [result |-> "ok", failed |-> "none", db |-> "closed"]

\* Close, as a function of s.db and of the driver: nothing to do without a
\* handle; sql.DB.Close marks the handle closed whatever the driver
\* returns, and returns nil on a handle that is closed already.  s.db is
\* not reset.
CloseOutcome(d, fault) ==
    IF d = "nil" THEN [result |-> "ok", failed |-> "none", db |-> "nil"]
    ELSE IF d = "closed" THEN [result |-> "ok", failed |-> "none", db |-> "closed"]
    ELSE IF fault = "close" THEN [result |-> "err_close", failed |-> "close", db |-> "closed"]
    ELSE [result |-> "ok", failed |-> "none", db |-> "closed"]

Close(fault) ==
    /\ ~Crashed
    /\ calls < MaxCalls
    /\ fault = "none" \/ db = "open"
    /\ LET out == CloseOutcome(db, fault)
       IN  /\ db' = out.db
           /\ last' = Call("Close", NoMsg,
                           Outcome(out.result, "none", out.failed, "none", table),
                           table, db, <<>>)
    /\ calls' = calls + 1
    /\ UNCHANGED <<table, unreferenced, txs, wlock>>

\* New(): no storage handle yet; the store holds what earlier runs left.
Init ==
    /\ table \in InitialTables
    /\ db = "nil"
    /\ unreferenced = 0
    /\ last = Call("New", NoMsg, Outcome("ok", "none", "none", "none", table),
                   table, "nil", <<>>)
    /\ calls = 0
    /\ txs = [p \in Procs |-> IdleTx]
    /\ wlock = "none"

Next ==
    \/ \E outcome \in InitOutcomes : Initialize(outcome)
    \/ \E req \in Requests : Process(req[1], req[2])
    \/ \E fault \in CloseFaults : Close(fault)

Spec == Init /\ [][Next]_vars

(***************************************************************************)
(* Process calls delivered concurrently on an initialized component.  Each *)
(* call runs its handler's storage steps one at a time on its own          *)
(* transaction; the steps of different calls interleave.  The store is the *)
(* serializing store the handlers rely on, as SQLite in WAL mode behaves:  *)
(* BEGIN takes nothing; the first read of a transaction fixes its          *)
(* snapshot of the committed table; a write needs the single write lock,   *)
(* fails as busy when another transaction holds it until the busy timeout, *)
(* and fails at once when the transaction's snapshot is no longer the      *)
(* committed table; commit publishes the writes and frees the lock.        *)
(* Preparing a statement and reading the rows affected touch nothing other *)
(* calls can see and are part of the exec step.                            *)
(***************************************************************************)
ConcMessages ==
    {NewPairMsg("P1", "A", "B", 1), NewPairMsg("P1", "B", "A", 0),
     NewPairMsg("P2", "B", "A", 0),
     SyncMsg("P1", "100", "0", 1, 1), SyncMsg("P1", "0", "100", 0, 0),
     SyncMsg("P2", "100", "100", 1, 0),
     NewPairMsg("P2", "", "B", 1), Payload(TRUE, "invalid", EmptyObj)}

Done(p, result) == [txs[p] EXCEPT !.pc = "done", !.result = result]

\* Process up to and with BeginTx: the payload checks, the decodes and, for
\* new_pair, the validation; a call that passes them has begun its
\* transaction.
CStart(p, msg) ==
    /\ txs[p].pc = "idle"
    /\ LET out == ProcessOutcome(db, table, msg, "begin")
       IN  txs' = [txs EXCEPT ![p] =
                      IF out.failed = "begin"
                      THEN [@ EXCEPT !.pc = IF out.handler = "handleSync" THEN "query" ELSE "exec",
                                     !.msg = msg, !.handler = out.handler]
                      ELSE [@ EXCEPT !.pc = "done", !.msg = msg, !.handler = out.handler,
                                     !.result = out.result]]
    /\ UNCHANGED <<table, db, unreferenced, last, calls, wlock>>

\* handleSync: the existence check, on the snapshot it fixes; an unknown pair
\* ends the call with success and the deferred rollback.
CQuery(p) ==
    /\ txs[p].pc = "query"
    /\ txs' = [txs EXCEPT ![p] =
                  IF QueryExists(table, DecodeSync(txs[p].msg).event)
                  THEN [@ EXCEPT !.pc = "exec", !.hasSnap = TRUE, !.snap = table]
                  ELSE Done(p, "ok")]
    /\ UNCHANGED <<table, db, unreferenced, last, calls, wlock>>

\* The statement of the handler, run on the committed table.
Statement(tx, tbl) ==
    IF tx.handler = "handleSync"
    THEN ExecUpdate(tbl, DecodeSync(tx.msg).event)
    ELSE ExecInsert(tbl, DecodeNewPair(tx.msg).event)

\* The INSERT or UPDATE with the write lock free: refused when the snapshot
\* is stale, else it takes the lock and writes in the transaction.
CExec(p) ==
    /\ txs[p].pc = "exec"
    /\ wlock = "none"
    /\ LET stale == txs[p].hasSnap /\ txs[p].snap # table
           st == Statement(txs[p], table)
       IN  IF stale \/ ~st.ok
           THEN /\ txs' = [txs EXCEPT ![p] = Done(p, "err_storage")]
                /\ UNCHANGED wlock
           ELSE /\ txs' = [txs EXCEPT ![p] = [@ EXCEPT !.pc = "commit", !.work = st.table]]
                /\ wlock' = p
    /\ UNCHANGED <<table, db, unreferenced, last, calls>>

\* The INSERT or UPDATE while another call holds the write lock, given up at
\* the busy timeout.
CExecBusy(p) ==
    /\ txs[p].pc = "exec"
    /\ wlock \notin {"none", p}
    /\ txs' = [txs EXCEPT ![p] = Done(p, "err_storage")]
    /\ UNCHANGED <<table, db, unreferenced, last, calls, wlock>>

\* tx.Commit().
CCommit(p) ==
    /\ txs[p].pc = "commit"
    /\ table' = Commit(table, txs[p].work)
    /\ wlock' = "none"
    /\ txs' = [txs EXCEPT ![p] = Done(p, "ok")]
    /\ UNCHANGED <<db, unreferenced, last, calls>>

\* A storage step fails or the deadline expires in an open transaction: the
\* call returns the error and the transaction is rolled back.
CFail(p) ==
    /\ txs[p].pc \in {"query", "exec", "commit"}
    /\ table' = Rollback(table, txs[p].work)
    /\ wlock' = IF wlock = p THEN "none" ELSE wlock
    /\ txs' = [txs EXCEPT ![p] = Done(p, "err_storage")]
    /\ UNCHANGED <<db, unreferenced, last, calls>>

\* After a successful Initialize; the store holds what earlier runs left.
ConcInit ==
    /\ table \in InitialTables
    /\ db = "open"
    /\ unreferenced = 0
    /\ last = Call("Initialize", NoMsg, Outcome("ok", "none", "none", "none", table),
                   table, "nil", InitSteps)
    /\ calls = 1
    /\ txs = [p \in Procs |-> IdleTx]
    /\ wlock = "none"

ConcNext ==
    \/ \E p \in Procs, msg \in ConcMessages : CStart(p, msg)
    \/ \E p \in Procs : CQuery(p)
    \/ \E p \in Procs : CExec(p)
    \/ \E p \in Procs : CExecBusy(p)
    \/ \E p \in Procs : CCommit(p)
    \/ \E p \in Procs : CFail(p)

SpecConcurrent == ConcInit /\ [][ConcNext]_vars


(***************************************************************************)
(* Properties.  They are stated over the record of the last call and the   *)
(* messages as sent, not over the decoded events.                          *)
(***************************************************************************)
IsProcess == last.op = "Process"

Known(tbl, a) == \E r \in tbl : r.pair_address = a

\* The call ran with a usable handle and no storage step failed.
StorageWorked == db = "open" /\ last.fault = "none"

Synced(r, r0, r1, ts, l) ==
    [r EXCEPT !.reserve_0 = r0, !.reserve_1 = r1,
              !.last_sync_at = ts, !.last_sync_ledger = l]

\* C1: processing a valid new_pair event whose pair_address already has a row
\* leaves the table exactly as it was (every column of the stored row, also
\* its sync columns, and the row count), whatever tokens and timestamp the
\* event carries, and returns success when storage worked.
C1_DuplicateNewPairIsNoOp ==
    \A a \in Pairs, t0 \in Tokens, t1 \in Tokens, ts \in Times :
        (IsProcess /\ last.msg = NewPairMsg(a, t0, t1, ts) /\ Known(last.pre, a))
        => /\ table = last.pre
           /\ StorageWorked => last.result = "ok"

\* A duplicate new_pair with other tokens and another timestamp returned
\* success on a row that a sync had already updated.
C1_Witness ==
    /\ IsProcess
    /\ last.msg = NewPairMsg("P1", "B", "A", 0)
    /\ last.result = "ok"
    /\ \E r \in last.pre : r.pair_address = "P1" /\ r.token_0 = "A"
                           /\ r.created_at = 1 /\ r.last_sync_at # NULL

\* C2: a successful Process of a valid new_pair event whose pair_address has
\* no row adds exactly one row: that address, the event's token_0 and
\* token_1, reserves "0", created_at the event's timestamp, both sync columns
\* NULL; every other row stays.
C2_NewPairInsertsOneRow ==
    \A a \in Pairs, t0 \in Tokens, t1 \in Tokens, ts \in Times :
        (IsProcess /\ last.msg = NewPairMsg(a, t0, t1, ts) /\ ~Known(last.pre, a)
         /\ last.result = "ok")
        => /\ table = last.pre \cup
                      {[pair_address |-> a, token_0 |-> t0, token_1 |-> t1,
                        reserve_0 |-> "0", reserve_1 |-> "0", created_at |-> ts,
                        last_sync_at |-> NULL, last_sync_ledger |-> NULL]}
           /\ Cardinality(table) = Cardinality(last.pre) + 1

\* A second pair was inserted next to a stored one.
C2_Witness ==
    /\ IsProcess
    /\ last.msg = NewPairMsg("P2", "B", "A", 1)
    /\ last.result = "ok"
    /\ Known(last.pre, "P1") /\ ~Known(last.pre, "P2")
    /\ Cardinality(table) = 2

\* C3: a sync event whose contract_id matches no row leaves the table as it
\* was, and returns success when storage worked.
C3_UnknownPairSyncIsNoOp ==
    /\ \A c \in Pairs \cup {""}, r0 \in Reserves, r1 \in Reserves,
          ts \in Times, l \in Ledgers :
          (IsProcess /\ last.msg = SyncMsg(c, r0, r1, ts, l) /\ ~Known(last.pre, c))
          => /\ table = last.pre
             /\ StorageWorked => last.result = "ok"
    /\ (IsProcess /\ last.msg = BareSyncMsg)
       => /\ table = last.pre
          /\ StorageWorked => last.result = "ok"

\* A sync for P2 returned success on a table that holds only P1.
C3_Witness ==
    /\ IsProcess
    /\ last.msg = SyncMsg("P2", "100", "0", 1, 1)
    /\ last.result = "ok"
    /\ Known(last.pre, "P1") /\ ~Known(last.pre, "P2")

\* C4: a successful Process of a sync event whose contract_id matches a row
\* sets that row's reserve_0, reserve_1, last_sync_at and last_sync_ledger to
\* the event's values and nothing else: its other columns, every other row
\* and the row count are unchanged.
C4_SyncUpdatesOnlyItsRow ==
    \A c \in Pairs, r0 \in Reserves, r1 \in Reserves, ts \in Times, l \in Ledgers :
        (IsProcess /\ last.msg = SyncMsg(c, r0, r1, ts, l) /\ Known(last.pre, c)
         /\ last.result = "ok")
        => /\ table = {IF r.pair_address = c THEN Synced(r, r0, r1, ts, l) ELSE r
                       : r \in last.pre}
           /\ Cardinality(table) = Cardinality(last.pre)

\* A sync changed P1's row while P2's row was in the table.
C4_Witness ==
    /\ IsProcess
    /\ last.msg = SyncMsg("P1", "0", "100", 0, 1)
    /\ last.result = "ok"
    /\ Known(last.pre, "P1") /\ Known(last.pre, "P2")
    /\ table # last.pre

\* C5: a new_pair event with an empty pair_address, token_0 or token_1 is
\* rejected with a validation error, before any transaction is begun, and
\* the table is unchanged.
C5_InvalidNewPairRejected ==
    \A m \in InvalidNewPairMsgs :
        (IsProcess /\ last.msg = m)
        => last.result = "err_validation" /\ last.tx = "none" /\ table = last.pre

\* A new_pair with an empty token_1 was rejected on an open store with rows.
C5_Witness ==
    /\ IsProcess
    /\ last.msg = NewPairMsg("P1", "A", "", 1)
    /\ last.result = "err_validation"
    /\ db = "open" /\ table # {}

\* C6: a payload that is not bytes, not a JSON document, fails the typed
\* decode or has a type other than new_pair and sync (a missing type too)
\* makes Process return an error without reaching a handler; the table is
\* unchanged.
C6_BadPayloadRejected ==
    /\ \A m \in NotBytesMsgs :
          (IsProcess /\ last.msg = m) => last.result = "err_not_bytes"
    /\ \A m \in NotJSONMsgs \cup BadTypeFieldMsgs :
          (IsProcess /\ last.msg = m) => last.result = "err_decode_type"
    /\ \A m \in UnknownTypeMsgs :
          (IsProcess /\ last.msg = m) => last.result = "err_unknown_type"
    /\ \A m \in BadFieldMsgs :
          (IsProcess /\ last.msg = m) => last.result = "err_decode_event"
    /\ \A m \in NotBytesMsgs \cup NotJSONMsgs \cup BadTypeFieldMsgs
                \cup UnknownTypeMsgs \cup BadFieldMsgs :
          (IsProcess /\ last.msg = m)
          => last.handler = "none" /\ last.tx = "none" /\ table = last.pre

\* A new_pair whose timestamp is not RFC 3339 text was refused by the typed
\* decode on an open store.
C6_Witness ==
    /\ IsProcess
    /\ last.msg = Payload(TRUE, "object",
                          [NewPairObj("P1", "A", "B", 1) EXCEPT !["timestamp"] = JStr("yesterday")])
    /\ last.result = "err_decode_event"
    /\ db = "open"

\* C7: when a storage step of a handler fails (begin, existence check,
\* prepare, exec, rows affected, commit, or the deadline expiring before
\* commit), Process returns an error, nothing is committed and the table is
\* as it was before the call.
C7_StorageFailureIsAllOrNothing ==
    (IsProcess /\ last.fault # "none")
    => last.result = "err_storage" /\ last.tx # "committed" /\ table = last.pre

\* The commit of an insert of a new pair failed.
C7_Witness ==
    /\ IsProcess
    /\ last.msg = NewPairMsg("P2", "A", "B", 1)
    /\ last.fault = "commit"
    /\ ~Known(last.pre, "P2")

\* C8: in every state every row has a non-empty pair_address, token_0 and
\* token_1, and no two rows share a pair_address.
C8_RowsWellFormedAndUnique ==
    /\ \A r \in table : r.pair_address # "" /\ r.token_0 # "" /\ r.token_1 # ""
    /\ \A r1 \in table, r2 \in table : r1.pair_address = r2.pair_address => r1 = r2

\* A table of two rows after a duplicate new_pair with other tokens.
C8_Witness ==
    /\ IsProcess
    /\ last.msg = NewPairMsg("P2", "A", "A", 1)
    /\ last.result = "ok"
    /\ Known(last.pre, "P2")
    /\ Cardinality(table) = 2

\* C9: no call removes a row: a pair_address present before a step is
\* present after it.
C9_RowsNeverDeleted ==
    [][\A r \in table : \E r2 \in table' : r2.pair_address = r.pair_address]_vars

\* A sync updated one of two stored rows, and both are still there.
C9_Witness ==
    /\ IsProcess
    /\ last.handler = "handleSync"
    /\ last.result = "ok"
    /\ table # last.pre
    /\ Cardinality(last.pre) = 2
    /\ Known(table, "P1") /\ Known(table, "P2")

\* C10: a stored row's token_0, token_1 and created_at are the same after
\* every step: no new_pair or sync event, accepted, rejected or failed,
\* changes them.
C10_TokensAndCreatedAtImmutable ==
    [][\A r \in table : \A r2 \in table' :
          r2.pair_address = r.pair_address
          => /\ r2.token_0 = r.token_0
             /\ r2.token_1 = r.token_1
             /\ r2.created_at = r.created_at]_vars

\* A sync with another timestamp was applied to a row created at instant 1.
C10_Witness ==
    /\ IsProcess
    /\ last.handler = "handleSync"
    /\ last.result = "ok"
    /\ \E r \in table : /\ r.pair_address = "P1" /\ r.created_at = 1
                        /\ r.last_sync_at = 0 /\ r.token_0 = "A" /\ r.token_1 = "B"


\* C11: Process never crashes the process: in every lifecycle state (never
\* initialized, Initialize failed, initialized, closed) and for every
\* message a Process call returns success or an error.
C11_ProcessNeverCrashes ==
    IsProcess => last.result # "panic"

\* C12: Close is safe in every lifecycle state: it never crashes; before
\* Initialize and after a failed Initialize it returns nil and there is
\* still no handle; on a closed handle it returns nil again; on an open
\* handle it returns nil unless the driver fails, and the handle is released
\* either way.
C12_CloseIsSafe ==
    last.op = "Close"
    => /\ last.result # "panic"
       /\ last.fault = "none" => last.result = "ok"
       /\ last.predb = "nil" => (db = "nil" /\ last.result = "ok")
       /\ last.predb = "closed" => (db = "closed" /\ last.result = "ok")
       /\ last.predb = "open" => db = "closed"

\* A second Close after a successful Initialize returned nil.
C12_Witness ==
    /\ last.op = "Close"
    /\ last.predb = "closed"
    /\ last.result = "ok"
    /\ calls = 3

\* C13: once Close has been called, every handle opened by an Initialize
\* call is released: none is left open without a reference and s.db is not
\* open.
C13_AllHandlesReleasedAfterClose ==
    last.op = "Close" => (unreferenced = 0 /\ db # "open")

\* C14: when open, ping, pragmas or schema creation fails in Initialize on
\* an instance that holds no handle, Initialize returns an error, s.db stays
\* unset, and the steps after the failing one are not run.
C14_FailedInitializeStopsAndStaysUnset ==
    (last.op = "Initialize" /\ last.predb = "nil" /\ last.fault # "none")
    => /\ last.result = "err_init"
       /\ db = "nil"
       /\ last.steps # <<>>
       /\ last.steps[Len(last.steps)] = last.fault
       /\ last.steps = SubSeq(<<"open", "ping", "pragma", "schema">>, 1, Len(last.steps))

\* db.Ping() failed in the first Initialize of the instance.
C14_Witness ==
    /\ last.op = "Initialize"
    /\ last.predb = "nil"
    /\ last.fault = "ping"
    /\ last.steps = <<"open", "ping">>
    /\ calls = 1


\* C16: a successful sync for a stored pair overwrites the four sync columns
\* whatever the stored last_sync_ledger is, also when the event's
\* ledger_sequence is lower than or equal to it: the row then holds the
\* values of the sync processed last.
C16_SyncLastDeliveredWins ==
    \A c \in Pairs, r0 \in Reserves, r1 \in Reserves, ts \in Times, l \in Ledgers :
        (IsProcess /\ last.msg = SyncMsg(c, r0, r1, ts, l) /\ last.result = "ok"
         /\ \E r \in last.pre : r.pair_address = c /\ r.last_sync_ledger >= l)
        => \E r \in table : /\ r.pair_address = c
                            /\ r.reserve_0 = r0 /\ r.reserve_1 = r1
                            /\ r.last_sync_at = ts /\ r.last_sync_ledger = l

\* A sync of ledger 0 replaced the values of a sync of ledger 1: the stored
\* last_sync_ledger decreased.
C16_Witness ==
    /\ IsProcess
    /\ last.msg = SyncMsg("P1", "0", "100", 0, 0)
    /\ last.result = "ok"
    /\ \E r \in last.pre : r.pair_address = "P1" /\ r.last_sync_ledger = 1
    /\ \E r \in table : r.pair_address = "P1" /\ r.last_sync_ledger = 0
                        /\ r.reserve_0 = "0" /\ r.reserve_1 = "100"

\* C17: in every state each row's last_sync_at is NULL exactly when its
\* last_sync_ledger is NULL, and a row without them has both reserves "0".
C17_SyncFieldsWrittenTogether ==
    \A r \in table :
        /\ (r.last_sync_at = NULL) <=> (r.last_sync_ledger = NULL)
        /\ r.last_sync_at = NULL => (r.reserve_0 = "0" /\ r.reserve_1 = "0")

\* After a sync at the zero instant with ledger 0 the table holds a synced
\* row next to one that never was.
C17_Witness ==
    /\ IsProcess
    /\ last.msg = SyncMsg("P1", "100", "100", 0, 0)
    /\ last.result = "ok"
    /\ \E r \in table : r.pair_address = "P1" /\ r.last_sync_at = 0 /\ r.last_sync_ledger = 0
    /\ \E r \in table : r.pair_address = "P2" /\ r.last_sync_at = NULL

\* C18: a Process call calls BeginTx at most once, does not try again after
\* a failure, and leaves no transaction open: the one it began is committed
\* when it returns success after its write, and rolled back on every other
\* return (an error, an unknown pair, the deadline).
C18_OneTransactionNoneLeftOpen ==
    IsProcess
    => /\ last.begun <= 1
       /\ last.tx \in {"none", "committed", "rolledback"}
       /\ last.fault # "none" => (last.result = "err_storage" /\ last.tx # "committed")
       /\ last.tx = "committed" => (last.result = "ok" /\ last.begun = 1)
       /\ (last.tx = "none" /\ last.fault # "begin") => last.begun = 0

\* A sync for an unknown pair returned success with its transaction rolled
\* back.
C18_Witness ==
    /\ IsProcess
    /\ last.msg = SyncMsg("P2", "0", "0", 1, 0)
    /\ ~Known(last.pre, "P2")
    /\ last.result = "ok"
    /\ last.tx = "rolledback"
    /\ last.begun = 1

\* C19: a sync event with an empty contract_id is not refused by any
\* validation, and it never changes the table: no row has an empty
\* pair_address, so it returns success without a write when storage worked.
C19_EmptyContractSyncIsNoOp ==
    /\ \A r \in table : r.pair_address # ""
    /\ \A m \in {SyncMsg("", "100", "0", 1, 1), BareSyncMsg} :
          (IsProcess /\ last.msg = m)
          => /\ last.handler = "handleSync"
             /\ last.result # "err_validation"
             /\ table = last.pre
             /\ last.tx # "committed"
             /\ StorageWorked => last.result = "ok"

\* A sync with an empty contract_id returned success on a store with rows.
C19_Witness ==
    /\ IsProcess
    /\ last.msg = SyncMsg("", "100", "0", 1, 1)
    /\ last.result = "ok"
    /\ last.pre # {}


AllDone == \A p \in Procs : txs[p].pc = "done"

Succeeded == {p \in Procs : txs[p].result = "ok"}

\* The orders in which the calls that returned success can be put.
Orders ==
    {o \in [1..Cardinality(Succeeded) -> Succeeded] :
        \A i \in DOMAIN o, j \in DOMAIN o : o[i] = o[j] => i = j}

\* C15: when concurrent Process calls have all returned, the table is what
\* the calls that returned success give when applied one at a time in some
\* order to the table they started from, the failed calls adding nothing;
\* two new_pair events for one new address leave exactly one row of it, the
\* row of one of them; a sync racing the new_pair of its pair leaves that
\* row either as inserted or with all four sync columns of the sync.
C15_ConcurrentCallsSerialize ==
    AllDone
    => /\ \E o \in Orders :
             table = Replay(last.pre, [i \in DOMAIN o |-> txs[o[i]].msg])
       /\ \A a \in Pairs, t0 \in Tokens, t1 \in Tokens, ts \in Times,
             u0 \in Tokens, u1 \in Tokens, us \in Times :
             (/\ txs["p1"].msg = NewPairMsg(a, t0, t1, ts)
              /\ txs["p2"].msg = NewPairMsg(a, u0, u1, us)
              /\ Succeeded = Procs /\ ~Known(last.pre, a))
             => /\ Cardinality({r \in table : r.pair_address = a}) = 1
                /\ \E r \in table :
                      /\ r.pair_address = a
                      /\ r.reserve_0 = "0" /\ r.reserve_1 = "0"
                      /\ r.last_sync_at = NULL /\ r.last_sync_ledger = NULL
                      /\ \/ (r.token_0 = t0 /\ r.token_1 = t1 /\ r.created_at = ts)
                         \/ (r.token_0 = u0 /\ r.token_1 = u1 /\ r.created_at = us)
       /\ \A p \in Procs, q \in Procs, a \in Pairs, t0 \in Tokens, t1 \in Tokens,
             ts \in Times, r0 \in Reserves, r1 \in Reserves, us \in Times, l \in Ledgers :
             (/\ txs[p].msg = NewPairMsg(a, t0, t1, ts)
              /\ txs[q].msg = SyncMsg(a, r0, r1, us, l)
              /\ txs[p].result = "ok" /\ ~Known(last.pre, a))
             => LET new == [pair_address |-> a, token_0 |-> t0, token_1 |-> t1,
                            reserve_0 |-> "0", reserve_1 |-> "0", created_at |-> ts,
                            last_sync_at |-> NULL, last_sync_ledger |-> NULL]
                IN  /\ {r \in table : r.pair_address = a} \subseteq
                          {new, Synced(new, r0, r1, us, l)}
                    /\ Known(table, a)
                    /\ txs[q].result # "ok" => new \in table

\* A sync that raced the new_pair of its pair found the row and updated it.
C15_Witness ==
    /\ AllDone
    /\ Succeeded = Procs
    /\ txs["p1"].msg = NewPairMsg("P2", "B", "A", 0)
    /\ txs["p2"].msg = SyncMsg("P2", "100", "100", 1, 0)
    /\ ~Known(last.pre, "P2")
    /\ \E r \in table : r.pair_address = "P2" /\ r.last_sync_at = 1

====
